---- MODULE Spec2Model ----
(***************************************************************************)
(* Location analytics of Agri-sol: the scan_history event log, the         *)
(* location_analytics and disease_tracking aggregate tables, the two       *)
(* AFTER INSERT triggers that maintain them and the full rebuild           *)
(* recalculate_location_analytics(), as written in                         *)
(* Frontend/Backend coms/STEP_3_FUNCTIONS_AND_TRIGGERS_FIXED.sql.          *)
(*                                                                         *)
(* Rows carry the two system columns xmin / xmax of PostgreSQL's row       *)
(* versions, so that the same statement operators serve a serial session   *)
(* (every statement of a transaction in one step) and interleaved READ     *)
(* COMMITTED transactions (one statement per step).                        *)
(* NUMERIC values are exact: a confidence is an integer number of          *)
(* hundredths and an average is a reduced fraction [num, den] of them.     *)
(***************************************************************************)
EXTENDS Integers, Sequences, FiniteSets, TLC

VARIABLES scan_history, location_analytics, disease_tracking,
          insert_result, pc, new_row, wait_ids, query_result, now, client

vars == <<scan_history, location_analytics, disease_tracking,
          insert_result, pc, new_row, wait_ids, query_result, now, client>>

(***************************************************************************)
(* Bounds and input domains                                                *)
(***************************************************************************)
MaxEvents == 3

NULL == "NULL"
NoConfidence == <<>>
DefaultConfidence == 50

COMMITTED == "committed"
NONE == "none"
SESSION == "session"

Province == "Northern Province"
District == "Musanze"
Sector == "Muhoza"

\* <<province, district, sector>>: the four contiguous tuples and one whose
\* province is missing while its district is present (all three columns are
\* nullable and nothing validates the chain).
Locations ==
  { <<NULL, NULL, NULL>>, <<Province, NULL, NULL>>, <<Province, District, NULL>>,
    <<Province, District, Sector>>, <<NULL, District, NULL>> }

Labels == {NULL, "Healthy", "Early Blight"}

ScanInput(loc, label, conf, user, time) ==
  [province |-> loc[1], district |-> loc[2], sector |-> loc[3],
   disease_detected |-> label, confidence_score |-> conf,
   user_id |-> user, created_at |-> time, crop_type |-> "Tomato"]

\* the same scan, of another crop
WithCrop(e, crop) == [e EXCEPT !.crop_type = crop]

\* inputs of the location slice: every location and label, one confidence
LocationInputs ==
  { ScanInput(loc, label, <<90>>, user, time) :
      loc \in Locations, label \in Labels, user \in {"u1"}, time \in {1} }

\* inputs of the disease slice: every confidence (also a missing one)
DiseaseInputs ==
  { ScanInput(loc, label, conf, "u1", 1) :
      loc \in {<<Province, District, NULL>>, <<NULL, District, NULL>>,
               <<NULL, NULL, NULL>>},
      label \in {"Healthy", "Early Blight"},
      conf \in {NoConfidence, <<70>>, <<80>>, <<90>>} }

(***************************************************************************)
(* Row versions and visibility (READ COMMITTED)                            *)
(***************************************************************************)
\* the rows a statement of transaction t sees: committed rows and its own,
\* minus the rows it has itself deleted or replaced
Visible(tbl, t) == {r \in tbl : r.xmin \in {COMMITTED, t} /\ r.xmax # t}

\* rows another open transaction has updated or deleted: their row lock is held
LockedByOther(rows, t) == {r \in rows : r.xmax \notin {NONE, t}}

\* an UPDATE of the target rows; set[r] is the row r after the SET list
UpdateRows(tbl, t, targets, set) ==
  (tbl \ targets)
    \cup {[r EXCEPT !.xmax = t] : r \in {x \in targets : x.xmin = COMMITTED}}
    \cup {[set[r] EXCEPT !.xmin = t] : r \in targets}

\* a DELETE whose effect does not wait for the commit
DeleteRows_Immediately(tbl, t, targets) == tbl \ targets

DeleteRows(tbl, t, targets) ==
  (tbl \ targets)
    \cup {[r EXCEPT !.xmax = t] : r \in {x \in targets : x.xmin = COMMITTED}}

\* the rows t deleted or replaced go, the rows it wrote become committed
CommitRows(tbl, t) ==
  {IF r.xmin = t THEN [r EXCEPT !.xmin = COMMITTED] ELSE r :
     r \in {x \in tbl : x.xmax # t}}

(***************************************************************************)
(* Pure helpers of the SQL                                                 *)
(***************************************************************************)
RECURSIVE GCD(_, _)
GCD(a, b) == IF b = 0 THEN a ELSE GCD(b, a % b)

Fraction(n, d) == [num |-> n \div GCD(n, d), den |-> d \div GCD(n, d)]

Coalesce(conf) == IF conf = NoConfidence THEN DefaultConfidence ELSE conf[1]

Greatest(a, b) == IF a >= b THEN a ELSE b

RECURSIVE SetMax(_)
SetMax(S) ==
  IF Cardinality(S) = 1 THEN CHOOSE x \in S : TRUE
  ELSE LET x == CHOOSE y \in S : TRUE IN Greatest(x, SetMax(S \ {x}))

RECURSIVE SetMin(_)
SetMin(S) ==
  IF Cardinality(S) = 1 THEN CHOOSE x \in S : TRUE
  ELSE LET x == CHOOSE y \in S : TRUE
           m == SetMin(S \ {x})
       IN IF x <= m THEN x ELSE m

RECURSIVE SumConfidence(_)
SumConfidence(rows) ==
  IF rows = {} THEN 0
  ELSE LET r == CHOOSE x \in rows : TRUE
       IN Coalesce(r.confidence_score) + SumConfidence(rows \ {r})

\* a key that stops at the district level
LocationKey_DistrictLevel(province, district, sector) ==
  IF province # NULL
    THEN IF district # NULL THEN province \o ">" \o district ELSE province
    ELSE "Unknown"

\* the CASE ... END that builds location_hierarchy
LocationKey(province, district, sector) ==
  IF province # NULL
    THEN IF district # NULL
           THEN IF sector # NULL
                  THEN province \o ">" \o district \o ">" \o sector
                  ELSE province \o ">" \o district
           ELSE province
    ELSE "Unknown"

location_key(row) == LocationKey(row.province, row.district, row.sector)

IsHealthy(label) == label = "Healthy" \/ label = NULL
IsDiseased(label) == label # "Healthy" /\ label # NULL

\* a CASE without its OR ... IS NULL
HealthyIncrement_IgnoringNull(label) == IF label = "Healthy" THEN 1 ELSE 0

HealthyIncrement(label) == IF IsHealthy(label) THEN 1 ELSE 0
DiseasedIncrement(label) == IF IsDiseased(label) THEN 1 ELSE 0

\* (col = new.col OR (col IS NULL AND new.col IS NULL)) on the three levels
SameLocation(h, new) ==
  /\ (h.province # NULL /\ new.province # NULL /\ h.province = new.province)
       \/ (h.province = NULL /\ new.province = NULL)
  /\ (h.district # NULL /\ new.district # NULL /\ h.district = new.district)
       \/ (h.district = NULL /\ new.district = NULL)
  /\ (h.sector # NULL /\ new.sector # NULL /\ h.sector = new.sector)
       \/ (h.sector = NULL /\ new.sector = NULL)

\* COUNT(DISTINCT user_id) over the scans of new's location
CountDistinctUsers(sh, new, t) ==
  Cardinality({h.user_id : h \in {x \in Visible(sh, t) : SameLocation(x, new)}}
                \ {NULL})

TriggerRowId(new) == <<"trigger", new.id, NULL, NULL, NULL, NULL>>
RecalcRowId(p, d, s, label) == <<"recalc", 0, p, d, s, label>>

(***************************************************************************)
(* update_location_analytics(): the statements of the trigger function     *)
(***************************************************************************)
\* SELECT * INTO existing_record ... WHERE location_hierarchy = location_key
LAExisting(la, new, t) ==
  {r \in Visible(la, t) : r.location_hierarchy = location_key(new)}

\* INSERT INTO location_analytics ... VALUES (location_key, ..., 1, CASE, CASE, 1, ...)
LAInsert(la, new, t) ==
  la \cup
    {[id |-> TriggerRowId(new),
      location_hierarchy |-> location_key(new),
      province |-> new.province, district |-> new.district, sector |-> new.sector,
      total_scans |-> 1,
      healthy_scans |-> HealthyIncrement(new.disease_detected),
      diseased_scans |-> DiseasedIncrement(new.disease_detected),
      unique_users |-> 1,
      last_scan_date |-> new.created_at,
      xmin |-> t, xmax |-> NONE]}

\* UPDATE location_analytics SET unique_users = (SELECT COUNT(DISTINCT ...))
LASetUniqueUsers(la, sh, new, t, targets) ==
  UpdateRows(la, t, targets,
             [r \in targets |-> [r EXCEPT !.unique_users = CountDistinctUsers(sh, new, t)]])

\* an UPDATE that leaves diseased_scans out of its SET list
LAIncrement_WithoutDiseased(la, sh, new, t, targets) ==
  UpdateRows(la, t, targets,
             [r \in targets |-> [r EXCEPT
               !.total_scans = r.total_scans + 1,
               !.healthy_scans = r.healthy_scans + HealthyIncrement(new.disease_detected),
               !.unique_users = CountDistinctUsers(sh, new, t),
               !.last_scan_date = Greatest(r.last_scan_date, new.created_at)]])

\* UPDATE location_analytics SET total_scans = total_scans + 1, ...
LAIncrement(la, sh, new, t, targets) ==
  UpdateRows(la, t, targets,
             [r \in targets |-> [r EXCEPT
               !.total_scans = r.total_scans + 1,
               !.healthy_scans = r.healthy_scans + HealthyIncrement(new.disease_detected),
               !.diseased_scans = r.diseased_scans + DiseasedIncrement(new.disease_detected),
               !.unique_users = CountDistinctUsers(sh, new, t),
               !.last_scan_date = Greatest(r.last_scan_date, new.created_at)]])

\* the whole function, run without interleaving
update_location_analytics(la, sh, new, t) ==
  IF LAExisting(la, new, t) = {}
    THEN LET inserted == LAInsert(la, new, t)
         IN LASetUniqueUsers(inserted, sh, new, t, LAExisting(inserted, new, t))
    ELSE LAIncrement(la, sh, new, t, LAExisting(la, new, t))

(***************************************************************************)
(* update_disease_tracking(): the statements of the trigger function       *)
(***************************************************************************)
\* SELECT * INTO existing_disease_record ... WHERE location_hierarchy = ... AND disease_name = ...
DTExisting(dt, new, t) ==
  {r \in Visible(dt, t) : /\ r.location_hierarchy = location_key(new)
                          /\ r.disease_name = new.disease_detected}

\* INSERT INTO disease_tracking ... VALUES (..., 1, COALESCE(confidence_score, 0.5), ...)
DTInsert(dt, new, t) ==
  dt \cup
    {[id |-> TriggerRowId(new),
      location_hierarchy |-> location_key(new),
      province |-> new.province, district |-> new.district, sector |-> new.sector,
      disease_name |-> new.disease_detected,
      occurrence_count |-> 1,
      severity_average |-> Fraction(Coalesce(new.confidence_score), 1),
      first_detected |-> new.created_at,
      last_detected |-> new.created_at,
      xmin |-> t, xmax |-> NONE]}

\* the mean computed from the count as it is after its increment
OnlineMean_AfterIncrement(avg, occurrence_count, conf) ==
  Fraction(avg.num * (occurrence_count + 1) + conf * avg.den,
           avg.den * (occurrence_count + 2))

\* (severity_average * occurrence_count + COALESCE(...)) / (occurrence_count + 1),
\* every column on the right-hand side being the row's value before the UPDATE
OnlineMean(avg, occurrence_count, conf) ==
  Fraction(avg.num * occurrence_count + conf * avg.den,
           avg.den * (occurrence_count + 1))

\* UPDATE disease_tracking SET occurrence_count = occurrence_count + 1, ...
DTIncrement(dt, new, t, targets) ==
  UpdateRows(dt, t, targets,
             [r \in targets |-> [r EXCEPT
               !.occurrence_count = r.occurrence_count + 1,
               !.severity_average =
                   OnlineMean(r.severity_average, r.occurrence_count,
                              Coalesce(new.confidence_score)),
               !.last_detected = Greatest(r.last_detected, new.created_at)]])

\* the whole function, run without interleaving
update_disease_tracking(dt, new, t) ==
  IF new.disease_detected = NULL \/ new.disease_detected = "Healthy"
    THEN dt
    ELSE IF DTExisting(dt, new, t) = {}
           THEN DTInsert(dt, new, t)
           ELSE DTIncrement(dt, new, t, DTExisting(dt, new, t))

(***************************************************************************)
(* recalculate_location_analytics(): the two INSERT ... SELECT ... GROUP BY *)
(***************************************************************************)
\* INSERT INTO location_analytics SELECT ... GROUP BY province, district, sector
RecalcLocationRows(sh, t) ==
  LET scans == Visible(sh, t)
      groups == {<<h.province, h.district, h.sector>> : h \in scans}
      Members(g) == {h \in scans : <<h.province, h.district, h.sector>> = g}
  IN {[id |-> RecalcRowId(g[1], g[2], g[3], NULL),
       location_hierarchy |-> LocationKey(g[1], g[2], g[3]),
       province |-> g[1], district |-> g[2], sector |-> g[3],
       total_scans |-> Cardinality(Members(g)),
       healthy_scans |->
         Cardinality({h \in Members(g) : IsHealthy(h.disease_detected)}),
       diseased_scans |->
         Cardinality({h \in Members(g) : IsDiseased(h.disease_detected)}),
       unique_users |-> Cardinality({h.user_id : h \in Members(g)} \ {NULL}),
       last_scan_date |-> SetMax({h.created_at : h \in Members(g)}),
       xmin |-> t, xmax |-> NONE] : g \in groups}

\* INSERT INTO disease_tracking SELECT ... WHERE disease_detected IS NOT NULL
\*   AND disease_detected != 'Healthy' GROUP BY province, district, sector, disease_detected
RecalcDiseaseRows(sh, t) ==
  LET scans == {h \in Visible(sh, t) :
                  h.disease_detected # NULL /\ h.disease_detected # "Healthy"}
      groups == {<<h.province, h.district, h.sector, h.disease_detected>> : h \in scans}
      Members(g) ==
        {h \in scans : <<h.province, h.district, h.sector, h.disease_detected>> = g}
  IN {[id |-> RecalcRowId(g[1], g[2], g[3], g[4]),
       location_hierarchy |-> LocationKey(g[1], g[2], g[3]),
       province |-> g[1], district |-> g[2], sector |-> g[3],
       disease_name |-> g[4],
       occurrence_count |-> Cardinality(Members(g)),
       severity_average |->
         Fraction(SumConfidence(Members(g)), Cardinality(Members(g))),
       first_detected |-> SetMin({h.created_at : h \in Members(g)}),
       last_detected |-> SetMax({h.created_at : h \in Members(g)}),
       xmin |-> t, xmax |-> NONE] : g \in groups}

(***************************************************************************)
(* State                                                                   *)
(***************************************************************************)
Workers == {"t1", "t2"}
RECALC == "recalc"
Procs == Workers \cup {RECALC}

\* the front end has not been started
NoClient == [op |-> NONE]

\* no query has returned yet
NoResult == [op |-> NONE, rows |-> <<>>]

NoRow == ScanInput(<<NULL, NULL, NULL>>, NULL, NoConfidence, NULL, 0)

Init ==
  /\ scan_history = {}
  /\ location_analytics = {}
  /\ disease_tracking = {}
  /\ insert_result = NONE
  /\ pc = [t \in Procs |-> "idle"]
  /\ new_row = [t \in Workers |-> NoRow]
  /\ wait_ids = [t \in Procs |-> {}]
  /\ query_result = NoResult
  /\ now = 0
  /\ client = NoClient

\* the row INSERT INTO scan_history stores for an input
ScanRow(e, id, t) ==
  [id |-> id, province |-> e.province, district |-> e.district, sector |-> e.sector,
   disease_detected |-> e.disease_detected, confidence_score |-> e.confidence_score,
   user_id |-> e.user_id, created_at |-> e.created_at, crop_type |-> e.crop_type,
   xmin |-> t, xmax |-> NONE]

(***************************************************************************)
(* A serial session: each transaction runs alone, start to commit          *)
(***************************************************************************)
\* a scan_history without its primary key
PrimaryKeyViolation_Never(sh, id) == FALSE

\* id UUID PRIMARY KEY: a second row with a stored id is rejected
PrimaryKeyViolation(sh, id) == id \in {h.id : h \in sh}

\* INSERT INTO scan_history. When the primary key accepts the row, both
\* AFTER INSERT ... FOR EACH ROW triggers fire, in the order of their names
\* (trigger_update_disease_tracking, then trigger_update_location_analytics);
\* when it rejects the row, the statement fails before any trigger fires.
InsertScan(e, id) ==
  /\ IF PrimaryKeyViolation(scan_history, id)
       THEN /\ insert_result' = "unique_violation"
            /\ UNCHANGED <<scan_history, location_analytics, disease_tracking>>
       ELSE /\ Cardinality(scan_history) < MaxEvents
            /\ LET new == ScanRow(e, id, SESSION)
                   sh == scan_history \cup {new}
                   dt == update_disease_tracking(disease_tracking, new, SESSION)
                   la == update_location_analytics(location_analytics, sh, new, SESSION)
               IN /\ scan_history' = CommitRows(sh, SESSION)
                  /\ disease_tracking' = CommitRows(dt, SESSION)
                  /\ location_analytics' = CommitRows(la, SESSION)
            /\ insert_result' = "ok"
  /\ UNCHANGED <<pc, new_row, wait_ids>>
  /\ UNCHANGED <<query_result, now, client>>

\* the id DEFAULT gen_random_uuid() draws: one no stored row has
FreshId == Cardinality(scan_history) + 1

\* a scan is recorded
RecordScan(e) == InsertScan(e, FreshId)

\* the client delivers a recorded scan a second time, under the same id
RedeliverScan(h) ==
  InsertScan(WithCrop(ScanInput(<<h.province, h.district, h.sector>>,
                                h.disease_detected, h.confidence_score,
                                h.user_id, h.created_at), h.crop_type), h.id)

\* SELECT recalculate_location_analytics()
Recalculate ==
  /\ LET la == DeleteRows(location_analytics, SESSION,
                          Visible(location_analytics, SESSION))
         dt == DeleteRows(disease_tracking, SESSION,
                          Visible(disease_tracking, SESSION))
     IN /\ location_analytics' =
             CommitRows(la \cup RecalcLocationRows(scan_history, SESSION), SESSION)
        /\ disease_tracking' =
             CommitRows(dt \cup RecalcDiseaseRows(scan_history, SESSION), SESSION)
  /\ UNCHANGED <<scan_history, insert_result, pc, new_row, wait_ids>>
  /\ UNCHANGED <<query_result, now, client>>

Next ==
  \/ \E e \in LocationInputs : RecordScan(e)
  \/ \E h \in scan_history : RedeliverScan(h)
  \/ Recalculate

Spec == Init /\ [][Next]_vars

NextDisease ==
  \/ \E e \in DiseaseInputs : RecordScan(e)
  \/ \E h \in scan_history : RedeliverScan(h)
  \/ Recalculate

SpecDisease == Init /\ [][NextDisease]_vars

\* inputs of the crop slice: two crops, at one location and at no location
CropInputs ==
  { WithCrop(ScanInput(loc, label, <<90>>, "u1", 1), crop) :
      loc \in {<<Province, District, NULL>>, <<NULL, NULL, NULL>>},
      label \in {"Healthy", "Early Blight"},
      crop \in {"Tomato", "Potato"} }

NextCrop ==
  \/ \E e \in CropInputs : RecordScan(e)
  \/ \E h \in scan_history : RedeliverScan(h)
  \/ Recalculate

SpecCrop == Init /\ [][NextCrop]_vars

(***************************************************************************)
(* Interleaved READ COMMITTED transactions: one SQL statement per step.    *)
(* Each worker records one scan in a transaction of its own (the INSERT    *)
(* and the statements of the two trigger functions), and one session runs  *)
(* recalculate_location_analytics().  A statement sees what is committed   *)
(* when it starts; an UPDATE or DELETE that meets a row locked by an open  *)
(* transaction waits for it and then works on the latest version of the    *)
(* rows it had selected, skipping those that were deleted meanwhile.       *)
(***************************************************************************)
ConcurrentInputs ==
  { ScanInput(loc, label, <<90>>, "u1", 1) :
      loc \in {<<Province, NULL, NULL>>, <<Province, District, NULL>>},
      label \in {"Healthy", "Early Blight"} }

\* the latest committed versions of the rows a waiting statement had selected
LatestVersions(tbl, ids) ==
  {r \in tbl : r.id \in ids /\ r.xmin = COMMITTED /\ r.xmax = NONE}

\* no open transaction holds a lock on a row with one of these ids
Unlocked(tbl, ids, t) == LockedByOther({r \in tbl : r.id \in ids}, t) = {}

Ids(rows) == {r.id : r \in rows}

\* INSERT INTO scan_history
WorkerInsert(t, e) ==
  /\ pc[t] = "idle"
  /\ Cardinality(scan_history) < MaxEvents
  /\ LET new == ScanRow(e, FreshId, t)
     IN /\ scan_history' = scan_history \cup {new}
        /\ new_row' = [new_row EXCEPT ![t] = new]
  /\ pc' = [pc EXCEPT ![t] = "dt_select"]
  /\ UNCHANGED <<location_analytics, disease_tracking, insert_result, wait_ids>>
  /\ UNCHANGED <<query_result, now, client>>

\* update_disease_tracking: RETURN NEW for a healthy scan, else SELECT ... INTO
WorkerDiseaseSelect(t) ==
  /\ pc[t] = "dt_select"
  /\ pc' = [pc EXCEPT ![t] =
       IF new_row[t].disease_detected = NULL \/ new_row[t].disease_detected = "Healthy"
         THEN "la_select"
         ELSE IF DTExisting(disease_tracking, new_row[t], t) = {}
                THEN "dt_insert" ELSE "dt_update"]
  /\ UNCHANGED <<scan_history, location_analytics, disease_tracking,
                 insert_result, new_row, wait_ids>>
  /\ UNCHANGED <<query_result, now, client>>

WorkerDiseaseInsert(t) ==
  /\ pc[t] = "dt_insert"
  /\ disease_tracking' = DTInsert(disease_tracking, new_row[t], t)
  /\ pc' = [pc EXCEPT ![t] = "la_select"]
  /\ UNCHANGED <<scan_history, location_analytics, insert_result, new_row, wait_ids>>
  /\ UNCHANGED <<query_result, now, client>>

WorkerDiseaseUpdate(t) ==
  /\ pc[t] = "dt_update"
  /\ LET targets == DTExisting(disease_tracking, new_row[t], t)
     IN IF LockedByOther(targets, t) = {}
          THEN /\ disease_tracking' =
                    DTIncrement(disease_tracking, new_row[t], t, targets)
               /\ pc' = [pc EXCEPT ![t] = "la_select"]
               /\ UNCHANGED wait_ids
          ELSE /\ wait_ids' = [wait_ids EXCEPT ![t] = Ids(targets)]
               /\ pc' = [pc EXCEPT ![t] = "dt_wait"]
               /\ UNCHANGED disease_tracking
  /\ UNCHANGED <<scan_history, location_analytics, insert_result, new_row>>
  /\ UNCHANGED <<query_result, now, client>>

WorkerDiseaseResume(t) ==
  /\ pc[t] = "dt_wait"
  /\ Unlocked(disease_tracking, wait_ids[t], t)
  /\ disease_tracking' =
       DTIncrement(disease_tracking, new_row[t], t,
                   LatestVersions(disease_tracking, wait_ids[t]))
  /\ wait_ids' = [wait_ids EXCEPT ![t] = {}]
  /\ pc' = [pc EXCEPT ![t] = "la_select"]
  /\ UNCHANGED <<scan_history, location_analytics, insert_result, new_row>>
  /\ UNCHANGED <<query_result, now, client>>

\* update_location_analytics: SELECT ... INTO existing_record
WorkerLocationSelect(t) ==
  /\ pc[t] = "la_select"
  /\ pc' = [pc EXCEPT ![t] =
       IF LAExisting(location_analytics, new_row[t], t) = {}
         THEN "la_insert" ELSE "la_update"]
  /\ UNCHANGED <<scan_history, location_analytics, disease_tracking,
                 insert_result, new_row, wait_ids>>
  /\ UNCHANGED <<query_result, now, client>>

WorkerLocationInsert(t) ==
  /\ pc[t] = "la_insert"
  /\ location_analytics' = LAInsert(location_analytics, new_row[t], t)
  /\ pc' = [pc EXCEPT ![t] = "la_users"]
  /\ UNCHANGED <<scan_history, disease_tracking, insert_result, new_row, wait_ids>>
  /\ UNCHANGED <<query_result, now, client>>

\* the UPDATE ... SET unique_users that follows the INSERT
WorkerLocationUsers(t) ==
  /\ pc[t] = "la_users"
  /\ LET targets == LAExisting(location_analytics, new_row[t], t)
     IN IF LockedByOther(targets, t) = {}
          THEN /\ location_analytics' =
                    LASetUniqueUsers(location_analytics, scan_history,
                                     new_row[t], t, targets)
               /\ pc' = [pc EXCEPT ![t] = "commit"]
               /\ UNCHANGED wait_ids
          ELSE /\ wait_ids' = [wait_ids EXCEPT ![t] = Ids(targets)]
               /\ pc' = [pc EXCEPT ![t] = "la_users_wait"]
               /\ UNCHANGED location_analytics
  /\ UNCHANGED <<scan_history, disease_tracking, insert_result, new_row>>
  /\ UNCHANGED <<query_result, now, client>>

WorkerLocationUsersResume(t) ==
  /\ pc[t] = "la_users_wait"
  /\ Unlocked(location_analytics, wait_ids[t], t)
  /\ location_analytics' =
       LASetUniqueUsers(location_analytics, scan_history, new_row[t], t,
                        {r \in Visible(location_analytics, t) :
                           r.id \in wait_ids[t]})
  /\ wait_ids' = [wait_ids EXCEPT ![t] = {}]
  /\ pc' = [pc EXCEPT ![t] = "commit"]
  /\ UNCHANGED <<scan_history, disease_tracking, insert_result, new_row>>
  /\ UNCHANGED <<query_result, now, client>>

\* the UPDATE ... SET total_scans = total_scans + 1, ... of the ELSE branch
WorkerLocationUpdate(t) ==
  /\ pc[t] = "la_update"
  /\ LET targets == LAExisting(location_analytics, new_row[t], t)
     IN IF LockedByOther(targets, t) = {}
          THEN /\ location_analytics' =
                    LAIncrement(location_analytics, scan_history,
                                new_row[t], t, targets)
               /\ pc' = [pc EXCEPT ![t] = "commit"]
               /\ UNCHANGED wait_ids
          ELSE /\ wait_ids' = [wait_ids EXCEPT ![t] = Ids(targets)]
               /\ pc' = [pc EXCEPT ![t] = "la_wait"]
               /\ UNCHANGED location_analytics
  /\ UNCHANGED <<scan_history, disease_tracking, insert_result, new_row>>
  /\ UNCHANGED <<query_result, now, client>>

WorkerLocationResume(t) ==
  /\ pc[t] = "la_wait"
  /\ Unlocked(location_analytics, wait_ids[t], t)
  /\ location_analytics' =
       LAIncrement(location_analytics, scan_history, new_row[t], t,
                   LatestVersions(location_analytics, wait_ids[t]))
  /\ wait_ids' = [wait_ids EXCEPT ![t] = {}]
  /\ pc' = [pc EXCEPT ![t] = "commit"]
  /\ UNCHANGED <<scan_history, disease_tracking, insert_result, new_row>>
  /\ UNCHANGED <<query_result, now, client>>

\* the INSERT statement returns and its transaction commits
WorkerCommit(t) ==
  /\ pc[t] = "commit"
  /\ scan_history' = CommitRows(scan_history, t)
  /\ location_analytics' = CommitRows(location_analytics, t)
  /\ disease_tracking' = CommitRows(disease_tracking, t)
  /\ pc' = [pc EXCEPT ![t] = "done"]
  /\ UNCHANGED <<insert_result, new_row, wait_ids>>
  /\ UNCHANGED <<query_result, now, client>>

\* DELETE FROM location_analytics
RecalcDeleteLocation ==
  /\ pc[RECALC] = "idle"
  /\ LET targets == Visible(location_analytics, RECALC)
     IN IF LockedByOther(targets, RECALC) = {}
          THEN /\ location_analytics' =
                    DeleteRows(location_analytics, RECALC, targets)
               /\ pc' = [pc EXCEPT ![RECALC] = "delete_dt"]
               /\ UNCHANGED wait_ids
          ELSE /\ wait_ids' = [wait_ids EXCEPT ![RECALC] = Ids(targets)]
               /\ pc' = [pc EXCEPT ![RECALC] = "delete_la_wait"]
               /\ UNCHANGED location_analytics
  /\ UNCHANGED <<scan_history, disease_tracking, insert_result, new_row>>
  /\ UNCHANGED <<query_result, now, client>>

RecalcDeleteLocationResume ==
  /\ pc[RECALC] = "delete_la_wait"
  /\ Unlocked(location_analytics, wait_ids[RECALC], RECALC)
  /\ location_analytics' =
       DeleteRows(location_analytics, RECALC,
                  LatestVersions(location_analytics, wait_ids[RECALC]))
  /\ wait_ids' = [wait_ids EXCEPT ![RECALC] = {}]
  /\ pc' = [pc EXCEPT ![RECALC] = "delete_dt"]
  /\ UNCHANGED <<scan_history, disease_tracking, insert_result, new_row>>
  /\ UNCHANGED <<query_result, now, client>>

\* DELETE FROM disease_tracking
RecalcDeleteDisease ==
  /\ pc[RECALC] = "delete_dt"
  /\ LET targets == Visible(disease_tracking, RECALC)
     IN IF LockedByOther(targets, RECALC) = {}
          THEN /\ disease_tracking' =
                    DeleteRows(disease_tracking, RECALC, targets)
               /\ pc' = [pc EXCEPT ![RECALC] = "insert_la"]
               /\ UNCHANGED wait_ids
          ELSE /\ wait_ids' = [wait_ids EXCEPT ![RECALC] = Ids(targets)]
               /\ pc' = [pc EXCEPT ![RECALC] = "delete_dt_wait"]
               /\ UNCHANGED disease_tracking
  /\ UNCHANGED <<scan_history, location_analytics, insert_result, new_row>>
  /\ UNCHANGED <<query_result, now, client>>

RecalcDeleteDiseaseResume ==
  /\ pc[RECALC] = "delete_dt_wait"
  /\ Unlocked(disease_tracking, wait_ids[RECALC], RECALC)
  /\ disease_tracking' =
       DeleteRows(disease_tracking, RECALC,
                  LatestVersions(disease_tracking, wait_ids[RECALC]))
  /\ wait_ids' = [wait_ids EXCEPT ![RECALC] = {}]
  /\ pc' = [pc EXCEPT ![RECALC] = "insert_la"]
  /\ UNCHANGED <<scan_history, location_analytics, insert_result, new_row>>
  /\ UNCHANGED <<query_result, now, client>>

\* INSERT INTO location_analytics SELECT ... FROM scan_history GROUP BY ...
RecalcInsertLocation ==
  /\ pc[RECALC] = "insert_la"
  /\ location_analytics' =
       location_analytics \cup RecalcLocationRows(scan_history, RECALC)
  /\ pc' = [pc EXCEPT ![RECALC] = "insert_dt"]
  /\ UNCHANGED <<scan_history, disease_tracking, insert_result, new_row, wait_ids>>
  /\ UNCHANGED <<query_result, now, client>>

\* INSERT INTO disease_tracking SELECT ... FROM scan_history ... GROUP BY ...
RecalcInsertDisease ==
  /\ pc[RECALC] = "insert_dt"
  /\ disease_tracking' =
       disease_tracking \cup RecalcDiseaseRows(scan_history, RECALC)
  /\ pc' = [pc EXCEPT ![RECALC] = "commit"]
  /\ UNCHANGED <<scan_history, location_analytics, insert_result, new_row, wait_ids>>
  /\ UNCHANGED <<query_result, now, client>>

\* the function returns and its transaction commits
RecalcCommit ==
  /\ pc[RECALC] = "commit"
  /\ location_analytics' = CommitRows(location_analytics, RECALC)
  /\ disease_tracking' = CommitRows(disease_tracking, RECALC)
  /\ pc' = [pc EXCEPT ![RECALC] = "done"]
  /\ UNCHANGED <<scan_history, insert_result, new_row, wait_ids>>
  /\ UNCHANGED <<query_result, now, client>>

NextConcurrent ==
  \/ \E t \in Workers, e \in ConcurrentInputs : WorkerInsert(t, e)
  \/ \E t \in Workers : WorkerDiseaseSelect(t)
  \/ \E t \in Workers : WorkerDiseaseInsert(t)
  \/ \E t \in Workers : WorkerDiseaseUpdate(t)
  \/ \E t \in Workers : WorkerDiseaseResume(t)
  \/ \E t \in Workers : WorkerLocationSelect(t)
  \/ \E t \in Workers : WorkerLocationInsert(t)
  \/ \E t \in Workers : WorkerLocationUsers(t)
  \/ \E t \in Workers : WorkerLocationUsersResume(t)
  \/ \E t \in Workers : WorkerLocationUpdate(t)
  \/ \E t \in Workers : WorkerLocationResume(t)
  \/ \E t \in Workers : WorkerCommit(t)
  \/ RecalcDeleteLocation
  \/ RecalcDeleteLocationResume
  \/ RecalcDeleteDisease
  \/ RecalcDeleteDiseaseResume
  \/ RecalcInsertLocation
  \/ RecalcInsertDisease
  \/ RecalcCommit

SpecConcurrent == Init /\ [][NextConcurrent]_vars

(***************************************************************************)
(* Vocabulary of the properties                                            *)
(***************************************************************************)
\* every aggregate row was written by a trigger: the store was built from
\* empty by one application per event, never rebuilt
IncrementalOnly ==
  \A r \in location_analytics \cup disease_tracking : r.id[1] = "trigger"

\* a table as the multiset of its rows' listed columns
AsMultiset(rows, columns) ==
  {<<columns[r], Cardinality({x \in rows : columns[x] = columns[r]})>> : r \in rows}

LocationColumns(rows) ==
  [r \in rows |->
    <<r.location_hierarchy, r.total_scans, r.healthy_scans, r.diseased_scans,
      r.unique_users, r.last_scan_date>>]

DiseaseColumns(rows) ==
  [r \in rows |->
    <<r.location_hierarchy, r.disease_name, r.occurrence_count, r.severity_average,
      r.first_detected, r.last_detected>>]

LocationMultiset(rows) == AsMultiset(rows, LocationColumns(rows))
DiseaseMultiset(rows) == AsMultiset(rows, DiseaseColumns(rows))

\* the recorded scans that derive key k
ScansOfKey(k) == {h \in scan_history : location_key(h) = k}

\* C1: rebuilding from the event log yields the same LocationAggregate rows
\* as the store the trigger built from empty, one application per event
C1_RecalcEqualsIncrementalLocation ==
  IncrementalOnly =>
    LocationMultiset(location_analytics)
      = LocationMultiset(RecalcLocationRows(scan_history, SESSION))

\* C2: rebuilding from the event log yields the same DiseaseAggregate rows
\* as the store the trigger built from empty, one application per event
C2_RecalcEqualsIncrementalDisease ==
  IncrementalOnly =>
    DiseaseMultiset(disease_tracking)
      = DiseaseMultiset(RecalcDiseaseRows(scan_history, SESSION))

\* C3: in every state, after any applications and rebuilds, every
\* LocationAggregate row has healthy_scans + diseased_scans = total_scans
C3_CountsAddUp ==
  \A r \in location_analytics : r.healthy_scans + r.diseased_scans = r.total_scans

\* a rebuilt row the trigger has since updated, holding healthy and diseased
\* scans, beside a row the trigger created
C3_Witness ==
  /\ \E r \in location_analytics :
       r.id[1] = "recalc" /\ r.total_scans >= 2
         /\ r.healthy_scans >= 1 /\ r.diseased_scans >= 1
  /\ \E r \in location_analytics : r.id[1] = "trigger"

\* C7: delivering a recorded ScanEvent again under its event id changes no
\* LocationAggregate and no DiseaseAggregate row
C7_RedeliveryChangesNothing ==
  [][\A h \in scan_history :
       RedeliverScan(h) => UNCHANGED <<location_analytics, disease_tracking>>]_vars

C7_Witness ==
  /\ insert_result = "unique_violation"
  /\ \E r \in location_analytics : r.total_scans >= 1
  /\ \E r \in disease_tracking : r.occurrence_count >= 1

\* C8: a DiseaseAggregate row the trigger created and maintained has
\* occurrence_count = n and severity_average = (c1 + ... + cn) / n over the n
\* events applied to it (a missing score counts as the default 0.5)
C8_OnlineMean ==
  \A r \in disease_tracking :
    r.id[1] = "trigger" =>
      LET applied == {h \in ScansOfKey(r.location_hierarchy) :
                        h.disease_detected = r.disease_name}
      IN /\ r.occurrence_count = Cardinality(applied)
         /\ r.severity_average.num * Cardinality(applied)
              = SumConfidence(applied) * r.severity_average.den

\* scores 0.9, 0.7, 0.8 applied to one row: count 3, mean 0.8
C8_Witness ==
  \E r \in disease_tracking :
    /\ r.id[1] = "trigger"
    /\ r.occurrence_count = 3
    /\ r.severity_average = [num |-> 80, den |-> 1]
    /\ {h.confidence_score : h \in {x \in ScansOfKey(r.location_hierarchy) :
                                      x.disease_detected = r.disease_name}}
         = {<<90>>, <<70>>, <<80>>}

\* C9 as stated: after applying events of one key to an empty store, the key's
\* row has total_scans = number of events, healthy_scans = number of events
\* carrying the healthy label, diseased_scans = number carrying another label
C9_CountsByLabel ==
  IncrementalOnly =>
    \A r \in location_analytics :
      LET applied == ScansOfKey(r.location_hierarchy)
      IN /\ r.total_scans = Cardinality(applied)
         /\ r.healthy_scans =
              Cardinality({h \in applied : h.disease_detected = "Healthy"})
         /\ r.diseased_scans =
              Cardinality({h \in applied : h.disease_detected \notin {"Healthy", NULL}})

\* C9 amended: healthy_scans is the number of events carrying the healthy
\* label or no label at all
C9_CountsByLabelOrNoLabel ==
  IncrementalOnly =>
    \A r \in location_analytics :
      LET applied == ScansOfKey(r.location_hierarchy)
      IN /\ r.total_scans = Cardinality(applied)
         /\ r.healthy_scans =
              Cardinality({h \in applied : h.disease_detected \in {"Healthy", NULL}})
         /\ r.diseased_scans =
              Cardinality({h \in applied : h.disease_detected \notin {"Healthy", NULL}})

\* two Early Blight and one Healthy for province > district: 3 / 1 / 2
C9_Witness ==
  /\ IncrementalOnly
  /\ \E r \in location_analytics :
       /\ r.province = Province /\ r.district = District /\ r.sector = NULL
       /\ r.total_scans = 3 /\ r.healthy_scans = 1 /\ r.diseased_scans = 2
       /\ Cardinality({h \in ScansOfKey(r.location_hierarchy) :
                         h.disease_detected = "Early Blight"}) = 2
       /\ Cardinality({h \in ScansOfKey(r.location_hierarchy) :
                         h.disease_detected = "Healthy"}) = 1

\* the populated levels of a contiguous tuple, coarsest first
RECURSIVE AncestorChain(_)
AncestorChain(levels) ==
  IF levels = <<>> \/ Head(levels) = NULL THEN <<>>
  ELSE <<Head(levels)>> \o AncestorChain(Tail(levels))

RECURSIVE JoinWith(_, _)
JoinWith(chain, sep) ==
  IF Len(chain) = 1 THEN chain[1]
  ELSE chain[1] \o sep \o JoinWith(Tail(chain), sep)

\* province present, and no level present below a missing one
ContiguousFromProvince(h) ==
  /\ h.province # NULL
  /\ h.sector # NULL => h.district # NULL

\* the aggregate rows and the scans agree on the keys in use, the key of a
\* scan being its ancestor chain joined with sep, and scans that differ in
\* their populated levels have different keys
KeysAreChains(sep) ==
  /\ \A h \in scan_history :
       ContiguousFromProvince(h) =>
         \E r \in location_analytics :
           /\ r.location_hierarchy
                = JoinWith(AncestorChain(<<h.province, h.district, h.sector>>), sep)
           /\ <<r.province, r.district, r.sector>>
                = <<h.province, h.district, h.sector>>
  /\ \A r1, r2 \in location_analytics :
       /\ ContiguousFromProvince(r1) /\ ContiguousFromProvince(r2)
       /\ <<r1.province, r1.district, r1.sector>>
            # <<r2.province, r2.district, r2.sector>>
       => r1.location_hierarchy # r2.location_hierarchy

\* C10 as stated: the key is the ancestor chain joined with " > "
C10_KeyJoinedWithSpaces == KeysAreChains(" > ")

\* C10 amended: the key is the ancestor chain joined with ">" (no spaces)
C10_KeyJoinedWithGreaterThan == KeysAreChains(">")

\* a province-only, a province-district and a province-district-sector key
C10_Witness ==
  {"Northern Province", "Northern Province>Musanze", "Northern Province>Musanze>Muhoza"}
    \subseteq {r.location_hierarchy : r \in location_analytics}

(***************************************************************************)
(* Interleaved transactions                                                *)
(***************************************************************************)
READER == "reader"

\* what a query statement of another session reads
Committed(tbl) == Visible(tbl, READER)

\* FROM location_analytics la WHERE la.total_scans > 0
get_location_leaderboard(la) == {r \in Committed(la) : r.total_scans > 0}

\* FROM disease_tracking dt
get_disease_tracking_by_location(dt) == Committed(dt)

WorkersDone == \A t \in Workers : pc[t] = "done"

RECURSIVE SumTotalScans(_)
SumTotalScans(rows) ==
  IF rows = {} THEN 0
  ELSE LET r == CHOOSE x \in rows : TRUE
       IN r.total_scans + SumTotalScans(rows \ {r})

\* C4: when the applications of two events of one key interleave, the key
\* ends with exactly one LocationAggregate row, whose total_scans is the
\* number of committed events of the key
C4_NoLostUpdate ==
  (WorkersDone /\ pc[RECALC] = "idle") =>
    \A h \in Committed(scan_history) :
      LET rows == {r \in Committed(location_analytics) :
                     r.location_hierarchy = location_key(h)}
      IN /\ Cardinality(rows) = 1
         /\ \A r \in rows :
              r.total_scans = Cardinality(ScansOfKey(location_key(h)))

\* C5: once a rebuild and the applications that ran beside it have all
\* finished, every committed event is counted in the total_scans of its key
C5_NoEventDropped ==
  (WorkersDone /\ pc[RECALC] = "done") =>
    \A h \in Committed(scan_history) :
      SumTotalScans({r \in Committed(location_analytics) :
                       r.location_hierarchy = location_key(h)})
        >= Cardinality(ScansOfKey(location_key(h)))

\* C6: a query never reads a torn store: whatever a rebuild is doing, the
\* rows it reads cover every committed scan (its location, and its disease
\* at that location), as the store before and the store after the rebuild do
C6_NoTornRead ==
  \A h \in Committed(scan_history) :
    /\ \E r \in get_location_leaderboard(location_analytics) :
         r.location_hierarchy = location_key(h)
    /\ IsDiseased(h.disease_detected) =>
         \E r \in get_disease_tracking_by_location(disease_tracking) :
           /\ r.location_hierarchy = location_key(h)
           /\ r.disease_name = h.disease_detected

\* a query between the rebuild's DELETEs and its commit, over a store that
\* has rows for a diseased scan
C6_Witness ==
  /\ pc[RECALC] \in {"insert_la", "insert_dt", "commit"}
  /\ \E h \in Committed(scan_history) : IsDiseased(h.disease_detected)
  /\ \E r \in location_analytics : r.xmax = RECALC
  /\ \E r \in disease_tracking : r.xmax = RECALC

(***************************************************************************)
(* Shape of the aggregate tables                                           *)
(***************************************************************************)
\* C11: after any scan inserts and rebuilds, location_analytics holds at
\* most one row per LocationKey, the "Unknown" key included
C11_OneRowPerLocationKey ==
  \A r1, r2 \in location_analytics :
    r1.location_hierarchy = r2.location_hierarchy => r1 = r2

\* the (LocationKey, crop_type, disease_label) triples of the non-healthy scans
DiseaseTriples ==
  {<<location_key(h), h.crop_type, h.disease_detected>> :
     h \in {x \in scan_history : IsDiseased(x.disease_detected)}}

\* C12: the disease_tracking rows are in one-to-one correspondence with the
\* (LocationKey, crop_type, disease_label) triples of the non-healthy scans,
\* and no row carries the healthy label
C12_OneRowPerTriple ==
  /\ Cardinality(disease_tracking) = Cardinality(DiseaseTriples)
  /\ \A r \in disease_tracking :
        /\ ~IsHealthy(r.disease_name)
        /\ \E k \in DiseaseTriples : k[1] = r.location_hierarchy /\ k[3] = r.disease_name

(***************************************************************************)
(* Derived columns of the queries. Percentages are NUMERIC with two        *)
(* decimals, held here in hundredths of a percent: 66.67 is 6667.          *)
(***************************************************************************)
\* ROUND(num::NUMERIC / den::NUMERIC, 2), for num >= 0 and den > 0
Round2(num, den) == (2 * 100 * num + den) \div (2 * den)

\* a rate that reads an empty location as fully diseased
disease_rate_EmptyAsFull(r) ==
  IF r.total_scans > 0 THEN Round2(r.diseased_scans * 100, r.total_scans) ELSE 10000

\* CASE WHEN la.total_scans > 0
\*   THEN ROUND((la.disease_scans::NUMERIC / la.total_scans::NUMERIC) * 100, 2)
\*   ELSE 0 END as disease_rate
\* (the column the query calls disease_scans is the trigger's diseased_scans)
disease_rate(r) ==
  IF r.total_scans > 0 THEN Round2(r.diseased_scans * 100, r.total_scans) ELSE 0

\* the stored healthy_percentage of a row with r's counts: DEFAULT 0 as long
\* as the row has only been inserted, and from the second scan on
\* ROUND((healthy_scans + CASE ...) * 100.0 / (total_scans + 1), 2), which is
\* the ratio of the counts the same UPDATE stores
healthy_percentage(r) ==
  IF r.total_scans > 1 THEN Round2(r.healthy_scans * 100, r.total_scans) ELSE 0

\* a location_analytics row of column defaults: no scan counted yet
EmptyLocation ==
  [total_scans |-> 0, healthy_scans |-> 0, diseased_scans |-> 0, unique_users |-> 0]

\* C13: for every location row, the empty one included, healthy_percentage
\* and disease_rate lie in 0..100, and both are 0 when total_scans = 0
C13_PercentagesInRange ==
  \A r \in location_analytics \cup {EmptyLocation} :
    /\ 0 <= healthy_percentage(r) /\ healthy_percentage(r) <= 10000
    /\ 0 <= disease_rate(r) /\ disease_rate(r) <= 10000
    /\ r.total_scans = 0 => healthy_percentage(r) = 0 /\ disease_rate(r) = 0

\* a location with one diseased scan in three: 33.33 and 66.67
C13_Witness ==
  \E r \in location_analytics :
    /\ r.total_scans = 3
    /\ disease_rate(r) = 3333
    /\ healthy_percentage(r) = 6667

(***************************************************************************)
(* The query functions. Each is one SELECT, so it reads one snapshot of    *)
(* the committed rows. ORDER BY fixes the order of rows with different     *)
(* sort values only: rows that tie may come back in any order.             *)
(***************************************************************************)
\* every order ORDER BY value DESC may return the rows of S in, value being
\* a function from rows to numbers
OrderedDesc(S, value) ==
  {s \in [1..Cardinality(S) -> S] :
     /\ \A i, j \in DOMAIN s : i # j => s[i] # s[j]
     /\ \A i, j \in DOMAIN s : i < j => value[s[i]] >= value[s[j]]}

\* ORDER BY first DESC, second DESC as one value per row: the number of rows
\* of S that sort strictly after it
LexValue(S, first, second) ==
  [r \in S |->
     Cardinality({x \in S : \/ first[x] < first[r]
                            \/ first[x] = first[r] /\ second[x] < second[r]})]

\* LIMIT limit_count
Limit(s, limit_count) ==
  SubSeq(s, 1, IF Len(s) < limit_count THEN Len(s) ELSE limit_count)

\* the limit_count arguments the queries are called with
Limits == 1..2

\* a query that empties the table it reads
QueryFrame_Truncating ==
  /\ location_analytics' = {}
  /\ UNCHANGED <<scan_history, disease_tracking, insert_result, pc, new_row,
                 wait_ids, now, client>>

\* the frame of a query: it writes its result and nothing else
QueryFrame ==
  UNCHANGED <<scan_history, location_analytics, disease_tracking,
              insert_result, pc, new_row, wait_ids, now, client>>

\* the SELECT list of get_location_leaderboard for the row at position i;
\* ROW_NUMBER() OVER (ORDER BY la.total_scans DESC) numbers the rows in the
\* order the same sort returns them
LeaderboardRow(r, i) ==
  [rank |-> i,
   location_hierarchy |-> LocationKey(r.province, r.district, r.sector),
   total_scans |-> r.total_scans, healthy_scans |-> r.healthy_scans,
   diseased_scans |-> r.diseased_scans, unique_users |-> r.unique_users,
   disease_rate |-> disease_rate(r)]

\* SELECT * FROM get_location_leaderboard(limit_count)
GetLocationLeaderboard(limit_count) ==
  /\ LET from == get_location_leaderboard(location_analytics)
     IN \E s \in OrderedDesc(from, [r \in from |-> r.total_scans]) :
          query_result' =
            [op |-> "get_location_leaderboard",
             rows |-> Limit([i \in DOMAIN s |-> LeaderboardRow(s[i], i)], limit_count)]
  /\ QueryFrame

\* SUM(value) over rows, value being a function from rows to numbers
RECURSIVE SumOf(_, _)
SumOf(rows, value) ==
  IF rows = {} THEN 0
  ELSE LET r == CHOOSE x \in rows : TRUE
       IN value[r] + SumOf(rows \ {r}, value)

\* CASE WHEN sector IS NOT NULL THEN sector WHEN district IS NOT NULL ...
location_name(r) ==
  IF r.sector # NULL THEN r.sector
  ELSE IF r.district # NULL THEN r.district
  ELSE IF r.province # NULL THEN r.province
  ELSE "Unknown"

\* (SELECT column FROM tbl ORDER BY value DESC LIMIT 1): the column of any
\* row with the greatest value, NULL over an empty table
TopOf(rows, value, column) ==
  IF rows = {} THEN {NULL}
  ELSE {column[r] : r \in {x \in rows : \A y \in rows : value[x] >= value[y]}}

\* SELECT * FROM get_analytics_summary(): one row of sums over the
\* locations with scans, and four scalar subqueries
GetAnalyticsSummary ==
  /\ LET la == get_location_leaderboard(location_analytics)
         all == Committed(location_analytics)
         dt == Committed(disease_tracking)
         occ == [r \in dt |-> r.occurrence_count]
         tot == [r \in all |-> r.total_scans]
     IN \E top_disease \in TopOf(dt, occ, [r \in dt |-> r.disease_name]),
           most_active_location \in TopOf(all, tot, [r \in all |-> location_name(r)]) :
          query_result' =
            [op |-> "get_analytics_summary",
             rows |-> << [total_scans |-> SumOf(la, [r \in la |-> r.total_scans]),
                          total_healthy_scans |-> SumOf(la, [r \in la |-> r.healthy_scans]),
                          total_diseased_scans |-> SumOf(la, [r \in la |-> r.diseased_scans]),
                          unique_users |-> SumOf(la, [r \in la |-> r.unique_users]),
                          active_locations |-> Cardinality(la),
                          top_disease |-> top_disease,
                          disease_count |-> CHOOSE n \in TopOf(dt, occ, occ) : TRUE,
                          most_active_location |-> most_active_location,
                          location_scan_count |-> CHOOSE n \in TopOf(all, tot, tot) : TRUE] >>]
  /\ QueryFrame

\* lower(text), on the names in use
Lower(text) ==
  CASE text = "Northern Province" -> "northern province"
    [] text = "Musanze" -> "musanze"
    [] text = "Muhoza" -> "muhoza"
    [] text = "Healthy" -> "healthy"
    [] text = "Early Blight" -> "early blight"
    [] OTHER -> text

\* what may stand before and after a search term inside a name in use
Fragments == {"", "mu", "nze"}

\* text ILIKE '%' || term || '%': NULL (not true) for a NULL text
ILike(text, term) ==
  /\ text # NULL
  /\ \E before, after \in Fragments :
       before \o Lower(term) \o after = Lower(text)

\* the location_filter and search_term arguments the queries are called with
Filters == {"Northern Province", "Northern Province>Musanze", "sa"}

\* ROUND(dt.severity_average, 3), in thousandths of the confidence unit
Round3(avg) == (2 * 10 * avg.num + avg.den) \div (2 * avg.den)

\* WHERE location_filter IS NULL OR dt.province ILIKE ... OR dt.sector ILIKE ...
MatchesFilter(r, location_filter) ==
  \/ location_filter = NULL
  \/ ILike(r.province, location_filter)
  \/ ILike(r.district, location_filter)
  \/ ILike(r.sector, location_filter)

DiseaseRow(r) ==
  [location_name |-> location_name(r),
   location_hierarchy |-> LocationKey(r.province, r.district, r.sector),
   disease_name |-> r.disease_name, occurrence_count |-> r.occurrence_count,
   severity_average |-> Round3(r.severity_average),
   first_detected |-> r.first_detected, last_detected |-> r.last_detected]

\* SELECT * FROM get_disease_tracking_by_location(location_filter),
\* ORDER BY dt.occurrence_count DESC, dt.last_detected DESC
GetDiseaseTrackingByLocation(location_filter) ==
  /\ LET from == {r \in get_disease_tracking_by_location(disease_tracking) :
                    MatchesFilter(r, location_filter)}
     IN \E s \in OrderedDesc(from, LexValue(from,
                                  [r \in from |-> r.occurrence_count],
                                  [r \in from |-> r.last_detected])) :
          query_result' =
            [op |-> "get_disease_tracking_by_location", arg |-> location_filter,
             rows |-> [i \in DOMAIN s |-> DiseaseRow(s[i])]]
  /\ QueryFrame

\* the ranking_type arguments
RankingTypes == {"scans", "users", "disease_rate"}

\* the CASE of the window's ORDER BY; the disease rate is not rounded there
RankingOrderValue(r, ranking_type) ==
  CASE ranking_type = "users" -> Fraction(r.unique_users, 1)
    [] ranking_type = "disease_rate" ->
         IF r.total_scans > 0 THEN Fraction(r.diseased_scans * 100, r.total_scans)
         ELSE Fraction(0, 1)
    [] OTHER -> Fraction(r.total_scans, 1)

\* the CASE of metric_value; hundredths, as disease_rate is
metric_value(r, ranking_type) ==
  CASE ranking_type = "users" -> r.unique_users * 100
    [] ranking_type = "disease_rate" -> disease_rate(r)
    [] OTHER -> r.total_scans * 100

\* SELECT * FROM get_location_rankings(ranking_type, limit_count):
\* ROW_NUMBER() numbers the rows by the window's order, and the statement's
\* ORDER BY metric_value DESC then orders them
GetLocationRankings(ranking_type, limit_count) ==
  /\ LET from == get_location_leaderboard(location_analytics)
         before == [r \in from |->
                     Cardinality({x \in from :
                        LET a == RankingOrderValue(x, ranking_type)
                            b == RankingOrderValue(r, ranking_type)
                        IN a.num * b.den < b.num * a.den})]
     IN \E w \in OrderedDesc(from, before) :
        \E s \in OrderedDesc(from, [r \in from |-> metric_value(r, ranking_type)]) :
          query_result' =
            [op |-> "get_location_rankings", arg |-> ranking_type,
             rows |-> Limit([i \in DOMAIN s |->
                              [rank |-> CHOOSE k \in DOMAIN w : w[k] = s[i],
                               location_hierarchy |->
                                 LocationKey(s[i].province, s[i].district, s[i].sector),
                               metric_value |-> metric_value(s[i], ranking_type)]],
                            limit_count)]
  /\ QueryFrame

\* the hierarchy_level arguments: the three the function knows, and 'all'
HierarchyLevels == {"province", "district", "sector", "all"}

\* the CASE of the WHERE clause of get_location_analytics_by_level
AtLevel(r, hierarchy_level) ==
  CASE hierarchy_level = "province" -> r.district = NULL /\ r.sector = NULL
    [] hierarchy_level = "district" -> r.district # NULL /\ r.sector = NULL
    [] hierarchy_level = "sector" -> r.sector # NULL
    [] OTHER -> TRUE

\* SELECT * FROM get_location_analytics_by_level(hierarchy_level)
GetLocationAnalyticsByLevel(hierarchy_level) ==
  /\ LET from == {r \in get_location_leaderboard(location_analytics) :
                    AtLevel(r, hierarchy_level)}
     IN \E s \in OrderedDesc(from, [r \in from |-> r.total_scans]) :
          query_result' =
            [op |-> "get_location_analytics_by_level", arg |-> hierarchy_level,
             rows |-> [i \in DOMAIN s |-> [LeaderboardRow(s[i], i) EXCEPT !.rank = 0]]]
  /\ QueryFrame

\* the CASE of match_type
match_type(r, search_term) ==
  IF ILike(r.province, search_term) THEN "Province"
  ELSE IF ILike(r.district, search_term) THEN "District"
  ELSE IF ILike(r.sector, search_term) THEN "Sector"
  ELSE "Other"

\* SELECT * FROM search_locations(search_term)
SearchLocations(search_term) ==
  /\ LET from == {r \in Committed(location_analytics) : MatchesFilter(r, search_term)}
     IN \E s \in OrderedDesc(from, [r \in from |-> r.total_scans]) :
          query_result' =
            [op |-> "search_locations", arg |-> search_term,
             rows |-> [i \in DOMAIN s |->
                        [location_name |-> location_name(s[i]),
                         location_hierarchy |->
                           LocationKey(s[i].province, s[i].district, s[i].sector),
                         total_scans |-> s[i].total_scans,
                         match_type |-> match_type(s[i], search_term)]]]
  /\ QueryFrame

\* inputs of the query slice: a province and a district of it, with two
\* diseases found by one user and a healthy scan of another
QueryInputs ==
  { ScanInput(<<Province, NULL, NULL>>, "Early Blight", <<90>>, "u1", 1),
    ScanInput(<<Province, NULL, NULL>>, "Late Blight", <<90>>, "u1", 1),
    ScanInput(<<Province, District, NULL>>, "Early Blight", <<90>>, "u1", 1),
    ScanInput(<<Province, District, NULL>>, "Healthy", <<90>>, "u2", 1) }

\* the workload of the query slice: the store is filled, then queried
Filling == query_result = NoResult

NextQuery ==
  \/ \E e \in QueryInputs : Filling /\ RecordScan(e)
  \/ Filling /\ Recalculate
  \/ \E limit_count \in Limits : GetLocationLeaderboard(limit_count)
  \/ GetAnalyticsSummary
  \/ \E location_filter \in Filters : GetDiseaseTrackingByLocation(location_filter)
  \/ \E ranking_type \in RankingTypes, limit_count \in Limits :
        GetLocationRankings(ranking_type, limit_count)
  \/ \E hierarchy_level \in HierarchyLevels : GetLocationAnalyticsByLevel(hierarchy_level)
  \/ \E search_term \in Filters : SearchLocations(search_term)

SpecQuery == Init /\ [][NextQuery]_vars

(***************************************************************************)
(* Properties of the queries                                               *)
(***************************************************************************)
\* the LocationKeys in use, in ascending (byte) order
KeysAscending ==
  << "Northern Province", "Northern Province>Musanze",
     "Northern Province>Musanze>Muhoza", "Unknown" >>

KeyRank(k) == CHOOSE i \in DOMAIN KeysAscending : KeysAscending[i] = k

\* C14: in a leaderboard by total_scans, two locations with the same
\* total_scans come in ascending LocationKey order
C14_TiesInKeyOrder ==
  query_result.op = "get_location_leaderboard" =>
    \A i, j \in DOMAIN query_result.rows :
      (i < j /\ query_result.rows[i].total_scans = query_result.rows[j].total_scans)
        => KeyRank(query_result.rows[i].location_hierarchy)
             < KeyRank(query_result.rows[j].location_hierarchy)

\* C16: the unique_users of the summary is the number of distinct users
\* with a scan, a user with scans under several keys counting once
C16_SummaryCountsUsersOnce ==
  query_result.op = "get_analytics_summary" =>
    query_result.rows[1].unique_users
      = Cardinality({h.user_id : h \in Committed(scan_history)})

\* the occurrence_count of a disease label summed over all locations
OccurrencesOf(label) ==
  SumOf({r \in Committed(disease_tracking) : r.disease_name = label},
        [r \in Committed(disease_tracking) |-> r.occurrence_count])

\* C17: the top_disease of the summary is a label whose occurrence_count,
\* summed over the disease_tracking rows of all locations, is greatest
C17_TopDiseaseBySum ==
  (query_result.op = "get_analytics_summary" /\ Committed(disease_tracking) # {}) =>
    \A r \in Committed(disease_tracking) :
      OccurrencesOf(query_result.rows[1].top_disease) >= OccurrencesOf(r.disease_name)

\* C18: the disease detail of a key returns exactly the disease_tracking
\* rows of that LocationKey, and none of another location
C18_DetailOfExactlyTheKey ==
  (query_result.op = "get_disease_tracking_by_location"
     /\ query_result.arg \in {"Northern Province", "Northern Province>Musanze"}) =>
    {<<query_result.rows[i].location_hierarchy, query_result.rows[i].disease_name>> :
       i \in DOMAIN query_result.rows}
      = {<<r.location_hierarchy, r.disease_name>> :
           r \in {x \in Committed(disease_tracking) :
                    x.location_hierarchy = query_result.arg}}

\* a step in which a query function returns: the writes leave query_result
\* as it is, each query stores its own name and rows there
QueryReturns == query_result' # query_result

\* C19: no query changes the event log or an aggregate row
C19_QueriesChangeNothing ==
  [][QueryReturns => UNCHANGED <<scan_history, location_analytics, disease_tracking>>]_vars

\* a query has returned rows of a store that holds scans of both tables
C19_Witness ==
  /\ query_result.op # NONE
  /\ Len(query_result.rows) >= 2
  /\ location_analytics # {}
  /\ disease_tracking # {}

(***************************************************************************)
(* The leaderboard of LOCATION_TRACKING_SCHEMA.sql, over the table of that *)
(* file: one row per location_string, with the counts the first UPDATE of  *)
(* refresh_location_analytics() stores and the growth rate its second      *)
(* UPDATE derives from them. The counts are drawn, not replayed scan by    *)
(* scan: a location in service holds more scans than a replay can reach.   *)
(***************************************************************************)
\* (total_scans, scans_last_7_days, scans_last_30_days) of a location in
\* service
LegacyCounts ==
  {<<3, 1, 2>>, <<4, 1, 4>>, <<133, 33, 133>>, <<2, 2, 2>>, <<11, 10, 11>>}

LegacyLocations ==
  {"Musanze, Northern Province, Rwanda", "Nyagatare, Eastern Province, Rwanda"}

LegacyRow(location_string, counts, total_users) ==
  [location_string |-> location_string,
   total_scans |-> counts[1], scans_last_7_days |-> counts[2],
   scans_last_30_days |-> counts[3], total_users |-> total_users,
   growth_rate_7_days |-> 0, growth_rate_30_days |-> 0]

\* the tables: location_string is UNIQUE, one row per location
InitLegacy ==
  /\ \E counts \in [LegacyLocations -> LegacyCounts],
        total_users \in [LegacyLocations -> 1..2] :
       location_analytics =
         {LegacyRow(l, counts[l], total_users[l]) : l \in LegacyLocations}
  /\ scan_history = {}
  /\ disease_tracking = {}
  /\ insert_result = NONE
  /\ pc = [t \in Procs |-> "idle"]
  /\ new_row = [t \in Workers |-> NoRow]
  /\ wait_ids = [t \in Procs |-> {}]
  /\ query_result = NoResult
  /\ now = 0
  /\ client = NoClient

\* a rate over all scans instead of the scans before the window
growth_rate_7_days_OverTotal(r) ==
  IF r.total_scans - r.scans_last_7_days > 0
    THEN Round2(r.scans_last_7_days * 100, r.total_scans)
    ELSE 0

\* growth_rate_7_days = CASE WHEN (total_scans - scans_last_7_days) > 0
\*   THEN ROUND((scans_last_7_days::DECIMAL / (total_scans - scans_last_7_days)) * 100, 2)
\*   ELSE 0 END, in hundredths of a percent
growth_rate_7_days(r) ==
  IF r.total_scans - r.scans_last_7_days > 0
    THEN Round2(r.scans_last_7_days * 100, r.total_scans - r.scans_last_7_days)
    ELSE 0

\* the same CASE over scans_last_30_days
growth_rate_30_days(r) ==
  IF r.total_scans - r.scans_last_30_days > 0
    THEN Round2(r.scans_last_30_days * 100, r.total_scans - r.scans_last_30_days)
    ELSE 0

\* a DECIMAL(5,2) column holds values below 1000 (hundredths: below 100000);
\* storing another raises numeric_value_out_of_range
FitsDecimal52(v) == v < 100000

\* the second UPDATE of refresh_location_analytics(), on one row
GrowthRates(r) ==
  [r EXCEPT !.growth_rate_7_days = growth_rate_7_days(r),
            !.growth_rate_30_days = growth_rate_30_days(r)]

\* what SELECT refresh_location_analytics() returns for the rows la it is
\* about to store: the function is one transaction, an error undoes it
RefreshOutcome(la) ==
  [op |-> "refresh_location_analytics", rows |-> <<>>,
   error |-> IF \A r \in la : /\ FitsDecimal52(r.growth_rate_7_days)
                                /\ FitsDecimal52(r.growth_rate_30_days)
               THEN NONE ELSE "numeric_value_out_of_range"]

\* SELECT refresh_location_analytics(): the UPDATE of the growth rates
RefreshGrowthRates ==
  /\ LET la == {GrowthRates(r) : r \in location_analytics}
     IN /\ query_result' = RefreshOutcome(la)
        /\ location_analytics' =
             IF RefreshOutcome(la).error = NONE THEN la ELSE location_analytics
  /\ UNCHANGED <<scan_history, disease_tracking, insert_result, pc, new_row,
                 wait_ids, now, client>>

\* the CASE of the ORDER BY; la.growth_rate_7_days::INTEGER rounds the
\* DECIMAL(5,2) to the nearest integer
LegacySortValue(r, sort_by) ==
  CASE sort_by = "total_users" -> r.total_users
    [] sort_by = "growth_rate" -> (r.growth_rate_7_days + 50) \div 100
    [] OTHER -> r.total_scans

\* the sort_by arguments: the three the function knows, and the disease rate
SortKeys == {"total_scans", "total_users", "growth_rate", "disease_rate"}

\* SELECT * FROM get_location_leaderboard(sort_by, limit_count)
LegacyLeaderboard(sort_by, limit_count) ==
  /\ \E s \in OrderedDesc(location_analytics,
                           [r \in location_analytics |-> LegacySortValue(r, sort_by)]) :
       query_result' =
         [op |-> "get_location_leaderboard", arg |-> sort_by, limit |-> limit_count,
          rows |-> Limit([i \in DOMAIN s |->
                           [location_string |-> s[i].location_string,
                            total_scans |-> s[i].total_scans,
                            total_users |-> s[i].total_users,
                            growth_rate_7_days |-> s[i].growth_rate_7_days]],
                         limit_count)]
  /\ QueryFrame

\* the workload: the rates are refreshed, then the leaderboard is read
NextLegacy ==
  \/ Filling /\ RefreshGrowthRates
  \/ \E sort_by \in SortKeys, limit_count \in Limits :
        LegacyLeaderboard(sort_by, limit_count)

SpecLegacy == InitLegacy /\ [][NextLegacy]_vars

\* the value of a leaderboard metric in a returned or stored row
MetricOf(r, metric) ==
  CASE metric = "total_users" -> r.total_users
    [] metric = "growth_rate" -> r.growth_rate_7_days
    [] OTHER -> r.total_scans

\* C15: a leaderboard by total_scans, unique users or 7-day growth rate
\* returns at most limit rows, in non-increasing order of the metric, and
\* omits no location with a strictly greater value than a returned one
C15_LeaderboardOrdered ==
  (query_result.op = "get_location_leaderboard"
     /\ query_result.arg \in {"total_scans", "total_users", "growth_rate"}) =>
    LET rows == query_result.rows
        metric == query_result.arg
        returned == {rows[i].location_string : i \in DOMAIN rows}
    IN /\ Len(rows) <= query_result.limit
       /\ \A i, j \in DOMAIN rows :
            i < j => MetricOf(rows[i], metric) >= MetricOf(rows[j], metric)
       /\ \A r \in location_analytics :
            r.location_string \notin returned =>
              \A i \in DOMAIN rows : MetricOf(r, metric) <= MetricOf(rows[i], metric)

(***************************************************************************)
(* What a signed-in user may do to scan_history besides INSERT: the        *)
(* policies and grants of STEP_4. The triggers are AFTER INSERT only.      *)
(***************************************************************************)
AuthUsers == {"u1", "u2"}

\* CREATE POLICY "Users can update their own scans" ... FOR UPDATE
\*   USING (auth.uid() = user_id)
CanUpdateScan(uid, h) == uid = h.user_id

\* no policy of scan_history is FOR DELETE (or FOR ALL): with row level
\* security enabled, a DELETE sees no row
CanDeleteScan(uid, h) == FALSE

\* UPDATE scan_history SET disease_detected = label WHERE id = h.id, as uid.
\* Rows the policy hides are not updated; no trigger fires ON UPDATE.
UpdateScan(uid, h, label) ==
  /\ scan_history' =
       IF CanUpdateScan(uid, h)
         THEN (scan_history \ {h}) \cup {[h EXCEPT !.disease_detected = label]}
         ELSE scan_history
  /\ UNCHANGED <<location_analytics, disease_tracking, insert_result, pc,
                 new_row, wait_ids, query_result, now, client>>

\* DELETE FROM scan_history WHERE id = h.id, as uid
DeleteScan(uid, h) ==
  /\ scan_history' = IF CanDeleteScan(uid, h) THEN scan_history \ {h} ELSE scan_history
  /\ UNCHANGED <<location_analytics, disease_tracking, insert_result, pc,
                 new_row, wait_ids, query_result, now, client>>

\* inputs of the owner slice: two users, at one location
OwnerInputs ==
  { ScanInput(<<Province, District, NULL>>, label, <<90>>, user, 1) :
      label \in {"Healthy", "Early Blight"}, user \in AuthUsers }

NextOwner ==
  \/ \E e \in OwnerInputs : RecordScan(e)
  \/ Recalculate
  \/ \E uid \in AuthUsers, h \in scan_history, label \in {"Healthy", "Early Blight"} :
        UpdateScan(uid, h, label)
  \/ \E uid \in AuthUsers, h \in scan_history : DeleteScan(uid, h)

SpecOwner == Init /\ [][NextOwner]_vars

\* C20: a recorded scan is never changed or removed: every row of
\* scan_history is still there, as it was, after every step
C20_EventsNeverChange ==
  [][\A h \in scan_history : h \in scan_history']_vars

(***************************************************************************)
(* Properties of refresh_location_analytics()                              *)
(***************************************************************************)
\* a step in which refresh_location_analytics() returns without error
RefreshCommits ==
  /\ query_result' # query_result
  /\ query_result'.op = "refresh_location_analytics"
  /\ query_result'.error = NONE

\* g is scans_last_7_days / (total_scans - scans_last_7_days) * 100 to the
\* two decimals of the column when total_scans > scans_last_7_days, and 0
\* when they are equal
GrowthAsDefined(r) ==
  LET rest == r.total_scans - r.scans_last_7_days
      diff == r.growth_rate_7_days * rest - r.scans_last_7_days * 10000
  IN IF rest > 0 THEN 2 * diff <= rest /\ 2 * (0 - diff) <= rest
     ELSE rest = 0 => r.growth_rate_7_days = 0

C28_RefreshNeverOverflows ==
  query_result.op = "refresh_location_analytics" => query_result.error = NONE

(***************************************************************************)
(* The triggers of LOCATION_TRACKING_SCHEMA.sql, replayed scan by scan     *)
(* over the tables of that file, with a clock in days for NOW().           *)
(***************************************************************************)
\* the last day of the clock
MaxDay == 32

\* INTERVAL '7 days' and INTERVAL '30 days'
Window7 == 7
Window30 == 30

\* NEW.predicted_disease ILIKE '%healthy%'
IsHealthyV1(label) == ILike(label, "healthy")

\* the row INSERT INTO scan_history stores; created_at is DEFAULT NOW()
\* unless the client sends one
ScanRowV1(location_string, label, user, created_at, id) ==
  [id |-> id, location_string |-> location_string, predicted_disease |-> label,
   user_id |-> user, crop_type |-> "Tomato", created_at |-> created_at]

\* ROUND((healthy_scans + CASE ...) * 100.0 / (total_scans + 1), 2)
healthy_percentage_v1(r, new) ==
  Round2((r.healthy_scans + (IF IsHealthyV1(new.predicted_disease) THEN 1 ELSE 0)) * 100,
         r.total_scans + 1)

\* update_location_analytics(): INSERT ... ON CONFLICT (location_string)
\* DO UPDATE. The INSERT names ten columns; the others take their DEFAULT.
update_location_analytics_v1(la, new) ==
  LET existing == {r \in la : r.location_string = new.location_string}
      healthy == IF IsHealthyV1(new.predicted_disease) THEN 1 ELSE 0
      disease == IF ~IsHealthyV1(new.predicted_disease) THEN 1 ELSE 0
  IN IF existing = {}
       THEN la \cup
            {[location_string |-> new.location_string,
              total_scans |-> 1, healthy_scans |-> healthy, disease_scans |-> disease,
              last_scan_at |-> new.created_at,
              total_users |-> 0, scans_last_7_days |-> 0, scans_last_30_days |-> 0,
              healthy_percentage |-> 0,
              growth_rate_7_days |-> 0, growth_rate_30_days |-> 0]}
       ELSE (la \ existing) \cup
            {[r EXCEPT !.total_scans = r.total_scans + 1,
                       !.healthy_scans = r.healthy_scans + healthy,
                       !.disease_scans = r.disease_scans + disease,
                       !.last_scan_at = new.created_at,
                       !.healthy_percentage = healthy_percentage_v1(r, new)]
               : r \in existing}

\* update_disease_tracking(): INSERT ... ON CONFLICT (location_string,
\* crop_type, disease_name) DO UPDATE, for every scan
update_disease_tracking_v1(dt, new) ==
  LET existing == {r \in dt : /\ r.location_string = new.location_string
                              /\ r.crop_type = new.crop_type
                              /\ r.disease_name = new.predicted_disease}
  IN IF existing = {}
       THEN dt \cup
            {[location_string |-> new.location_string, crop_type |-> new.crop_type,
              disease_name |-> new.predicted_disease, total_cases |-> 1,
              cases_last_7_days |-> 1, cases_last_30_days |-> 1,
              first_detected |-> new.created_at, last_detected |-> new.created_at]}
       ELSE (dt \ existing) \cup
            {[r EXCEPT !.total_cases = r.total_cases + 1,
                       !.last_detected = new.created_at] : r \in existing}

\* INSERT INTO scan_history: both AFTER INSERT triggers fire
InsertScanV1(location_string, label, user, created_at) ==
  /\ Cardinality(scan_history) < MaxEvents
  /\ LET new == ScanRowV1(location_string, label, user, created_at, FreshId)
     IN /\ scan_history' = scan_history \cup {new}
        /\ location_analytics' = update_location_analytics_v1(location_analytics, new)
        /\ disease_tracking' = update_disease_tracking_v1(disease_tracking, new)
  /\ UNCHANGED <<insert_result, pc, new_row, wait_ids, query_result, now, client>>

\* time passes: NOW() moves past one 7-day window
Tick ==
  /\ now + Window7 + 1 <= MaxDay
  /\ now' = now + Window7 + 1
  /\ UNCHANGED <<scan_history, location_analytics, disease_tracking, insert_result,
                 pc, new_row, wait_ids, query_result, client>>

\* the scans of a location string, and those with created_at >= NOW() - days
ScansOfString(h, location_string) == {e \in h : e.location_string = location_string}
ScansWithin(h, location_string, at, days) ==
  {e \in ScansOfString(h, location_string) : e.created_at >= at - days}

\* the first UPDATE of refresh_location_analytics(), on one row
WindowCounts(r, h, at) ==
  [r EXCEPT !.total_users =
              Cardinality({e.user_id : e \in ScansOfString(h, r.location_string)}),
            !.scans_last_7_days =
              Cardinality(ScansWithin(h, r.location_string, at, Window7)),
            !.scans_last_30_days =
              Cardinality(ScansWithin(h, r.location_string, at, Window30))]

\* SELECT refresh_location_analytics(): both UPDATEs, in one transaction
RefreshLocationAnalytics ==
  /\ LET la == {GrowthRates(WindowCounts(r, scan_history, now)) : r \in location_analytics}
     IN /\ query_result' = RefreshOutcome(la)
        /\ location_analytics' =
             IF RefreshOutcome(la).error = NONE THEN la ELSE location_analytics
  /\ UNCHANGED <<scan_history, disease_tracking, insert_result, pc, new_row,
                 wait_ids, now, client>>

\* the scans replayed: one location string, both kinds of label, two users,
\* created_at either DEFAULT NOW() or a client timestamp of day 0
ReplayStrings == {"Musanze, Northern Province, Rwanda"}
ReplayUsers == {"u1", "u2"}
ReplayLabels == {"Healthy", "Early Blight"}

NextReplay ==
  \/ \E l \in ReplayStrings, label \in ReplayLabels, u \in ReplayUsers, t \in {0, now} :
       InsertScanV1(l, label, u, t)
  \/ Tick
  \/ RefreshLocationAnalytics

SpecReplay == Init /\ [][NextReplay]_vars

\* C21: last_scan_at of a location row is the latest created_at among the
\* scans applied to its location string, whatever the order they arrive in
C21_LastScanIsLatest ==
  \A r \in location_analytics :
    r.last_scan_at = SetMax({e.created_at : e \in ScansOfString(scan_history, r.location_string)})

\* C23: scans_last_7_days and scans_last_30_days of every location row are
\* the numbers of its scans within the last 7 and the last 30 days
C23_WindowedCounts ==
  \A r \in location_analytics :
    /\ r.scans_last_7_days =
         Cardinality(ScansWithin(scan_history, r.location_string, now, Window7))
    /\ r.scans_last_30_days =
         Cardinality(ScansWithin(scan_history, r.location_string, now, Window30))

\* C25: healthy_percentage of every location row, the one a first scan
\* creates included, is healthy_scans / total_scans * 100 of its own counts
C25_HealthyPercentageOfCounts ==
  \A r \in location_analytics :
    r.total_scans > 0 => r.healthy_percentage = Round2(r.healthy_scans * 100, r.total_scans)

(***************************************************************************)
(* Scans of two users with client timestamps in either order, at the two   *)
(* locations without a province, whose key is 'Unknown'.                    *)
(***************************************************************************)
OrderInputs ==
  { ScanInput(loc, "Early Blight", <<90>>, user, time) :
      loc \in {<<NULL, NULL, NULL>>, <<NULL, District, NULL>>},
      user \in {"u1", "u2"}, time \in {1, 2} }

NextOrder ==
  \/ \E e \in OrderInputs : RecordScan(e)
  \/ Recalculate

SpecOrder == Init /\ [][NextOrder]_vars

\* the distinct users among the scans that derive key k
UsersOfKey(k) == {h.user_id : h \in ScansOfKey(k)} \ {NULL}

\* C22: after every application by the trigger, unique_users of a location
\* row is the number of distinct users among the scans that derive its key
C22_UniqueUsersOfKey ==
  IncrementalOnly =>
    \A r \in Visible(location_analytics, SESSION) :
      r.unique_users = Cardinality(UsersOfKey(r.location_hierarchy))

\* the scans counted in a disease row the trigger maintains
ScansOfDiseaseRow(r) ==
  {h \in ScansOfKey(r.location_hierarchy) : h.disease_detected = r.disease_name}

\* C27: in every disease row the trigger maintains, first_detected is the
\* earliest and last_detected the latest created_at of the scans counted in
\* the row, so first_detected <= last_detected
C27_FirstEarliestLastLatest ==
  IncrementalOnly =>
    \A r \in Visible(disease_tracking, SESSION) :
      /\ r.first_detected = SetMin({h.created_at : h \in ScansOfDiseaseRow(r)})
      /\ r.last_detected = SetMax({h.created_at : h \in ScansOfDiseaseRow(r)})
      /\ r.first_detected <= r.last_detected

\* the sum of occurrence_count over the disease rows of key k
OccurrencesOfKey(k) ==
  LET rows == {r \in Visible(disease_tracking, SESSION) : r.location_hierarchy = k}
  IN SumOf(rows, [r \in rows |-> r.occurrence_count])

\* the sum of diseased_scans over the location rows of key k
DiseasedOfKey(k) ==
  LET rows == {r \in Visible(location_analytics, SESSION) : r.location_hierarchy = k}
  IN SumOf(rows, [r \in rows |-> r.diseased_scans])

\* C26: after any inserts and rebuilds, the diseased_scans of every location
\* key equal the sum of occurrence_count over the disease rows of that key
C26_DiseasedEqualsOccurrences ==
  \A r \in Visible(location_analytics, SESSION) :
    DiseasedOfKey(r.location_hierarchy) = OccurrencesOfKey(r.location_hierarchy)

(***************************************************************************)
(* locationTrackingService.ts: location strings. A string is a sequence of *)
(* characters; a missing optional property is UNDEFINED.                   *)
(***************************************************************************)
UNDEFINED == <<"undefined">>

\* the databases every action of the front end leaves alone
ServerUnchanged ==
  UNCHANGED <<scan_history, location_analytics, disease_tracking, insert_result,
              pc, new_row, wait_ids, query_result, now>>

\* names: empty, plain, with a space inside, with a space in front, with a comma
Names == {<<>>, <<"a">>, <<"b", " ", "c">>, <<" ", "a">>, <<"a", ",", "b">>}

LocationData ==
  [country : {<<>>, <<"R">>},
   province : Names \cup {UNDEFINED},
   district : Names \cup {UNDEFINED},
   sector : Names \cup {UNDEFINED}]

\* if (location.sector): undefined and '' are falsy
Truthy(name) == name # UNDEFINED /\ name # <<>>

\* parts.join(', ')
RECURSIVE Join(_)
Join(parts) ==
  IF parts = <<>> THEN <<>>
  ELSE IF Len(parts) = 1 THEN parts[1]
  ELSE parts[1] \o <<",", " ">> \o Join(Tail(parts))

buildLocationString(location) ==
  Join(SelectSeq(<<location.sector, location.district, location.province,
                   location.country>>, Truthy))

\* locationString.split(',')
RECURSIVE Split(_)
Split(str) ==
  IF \A i \in 1..Len(str) : str[i] # "," THEN <<str>>
  ELSE LET i == CHOOSE j \in 1..Len(str) :
                  str[j] = "," /\ \A k \in 1..(j - 1) : str[k] # ","
       IN <<SubSeq(str, 1, i - 1)>> \o Split(SubSeq(str, i + 1, Len(str)))

\* part.trim()
RECURSIVE Trim(_)
Trim(str) ==
  IF str = <<>> THEN str
  ELSE IF Head(str) = " " THEN Trim(Tail(str))
  ELSE IF str[Len(str)] = " " THEN Trim(SubSeq(str, 1, Len(str) - 1))
  ELSE str

\* a parse that keeps the parts as split
parseLocationString_Untrimmed(locationString) ==
  LET parts == Split(locationString)
      n == Len(parts)
  IN [country |-> parts[n],
      province |-> IF n >= 2 THEN parts[n - 1] ELSE UNDEFINED,
      district |-> IF n >= 3 THEN parts[n - 2] ELSE UNDEFINED,
      sector |-> IF n >= 4 THEN parts[n - 3] ELSE UNDEFINED]

parseLocationString(locationString) ==
  LET split == Split(locationString)
      parts == [i \in 1..Len(split) |-> Trim(split[i])]
      n == Len(parts)
  IN [country |-> parts[n],
      province |-> IF n >= 2 THEN parts[n - 1] ELSE UNDEFINED,
      district |-> IF n >= 3 THEN parts[n - 2] ELSE UNDEFINED,
      sector |-> IF n >= 4 THEN parts[n - 3] ELSE UNDEFINED]

\* a caller holds a location; nothing is built or parsed yet
NothingParsed ==
  [country |-> UNDEFINED, province |-> UNDEFINED, district |-> UNDEFINED,
   sector |-> UNDEFINED]

InitLocationString ==
  /\ scan_history = {} /\ location_analytics = {} /\ disease_tracking = {}
  /\ insert_result = NONE
  /\ pc = [p \in Procs |-> "idle"]
  /\ new_row = [p \in Workers |-> NoRow]
  /\ wait_ids = [p \in Procs |-> {}]
  /\ query_result = NoResult
  /\ now = 0
  /\ \E loc \in LocationData :
       client = [op |-> "held", location |-> loc, locationString |-> <<>>,
                 parsed |-> NothingParsed]

BuildLocationString ==
  /\ client.op = "held"
  /\ client' = [client EXCEPT !.op = "built",
                              !.locationString = buildLocationString(client.location)]
  /\ ServerUnchanged

ParseLocationString ==
  /\ client.op = "built"
  /\ client' = [client EXCEPT !.op = "parsed",
                              !.parsed = parseLocationString(client.locationString)]
  /\ ServerUnchanged

NextLocationString == BuildLocationString \/ ParseLocationString

SpecLocationString == InitLocationString /\ [][NextLocationString]_vars

\* sector needs district and district needs province
ContiguousLevels(loc) ==
  /\ Truthy(loc.sector) => Truthy(loc.district)
  /\ Truthy(loc.district) => Truthy(loc.province)

NoComma(name) == \A i \in 1..Len(name) : name[i] # ","

\* the populated names of a location
PopulatedNames(loc) ==
  {n \in {loc.country, loc.province, loc.district, loc.sector} : Truthy(n)}

\* a country, a contiguous chain, no comma in a name
RoundTripDomain(loc) ==
  /\ Truthy(loc.country)
  /\ ContiguousLevels(loc)
  /\ \A n \in PopulatedNames(loc) : NoComma(n)

\* the same level: both unpopulated or the same name
SameLevel(a, b) == IF Truthy(a) \/ Truthy(b) THEN a = b ELSE TRUE

SameLocationData(a, b) ==
  /\ SameLevel(a.country, b.country) /\ SameLevel(a.province, b.province)
  /\ SameLevel(a.district, b.district) /\ SameLevel(a.sector, b.sector)

\* which of province, district, sector are populated
PopulatedLevels(loc) ==
  <<Truthy(loc.province), Truthy(loc.district), Truthy(loc.sector)>>

\* the parsed string gives the location back, and no location of the domain
\* with other populated levels builds the same string
RoundTrips(Domain) ==
  /\ client.op = "parsed" /\ client.location \in Domain
       => SameLocationData(client.parsed, client.location)
  /\ client.op \in {"built", "parsed"} /\ client.location \in Domain
       => \A other \in Domain :
            PopulatedLevels(other) # PopulatedLevels(client.location)
              => buildLocationString(other) # client.locationString

\* C29 as stated: for a location with a country, a contiguous chain and no
\* comma in a name, parsing the built string returns the location, and
\* locations with different populated levels build different strings
C29_RoundTrip == RoundTrips({loc \in LocationData : RoundTripDomain(loc)})

NoOuterSpace(name) == name = <<>> \/ (Head(name) # " " /\ name[Len(name)] # " ")

\* C29: the same for locations whose names, in addition, neither begin nor
\* end with white space
C29_RoundTripOfTrimmedNames ==
  RoundTrips({loc \in LocationData :
                /\ RoundTripDomain(loc)
                /\ \A n \in PopulatedNames(loc) : NoOuterSpace(n)})

\* Muhoza-like chain of three levels with a name holding an inner space,
\* built and parsed back
C29_Witness ==
  /\ client.op = "parsed"
  /\ client.location = [country |-> <<"R">>, province |-> <<"b", " ", "c">>,
                         district |-> <<"a">>, sector |-> <<"a">>]
  /\ client.parsed = client.location

(***************************************************************************)
(* useSupabaseRPC: one mounted hook. Requests are numbered in the order    *)
(* fetchData starts them; data and error hold the number of the request    *)
(* whose result or message they are, 0 for null.                            *)
(***************************************************************************)
\* the most fetches one run starts
MaxFetches == 4

\* useState(null), useState(true), useState(null); no effect has run yet
InitHook ==
  /\ scan_history = {} /\ location_analytics = {} /\ disease_tracking = {}
  /\ insert_result = NONE
  /\ pc = [p \in Procs |-> "idle"]
  /\ new_row = [p \in Workers |-> NoRow]
  /\ wait_ids = [p \in Procs |-> {}]
  /\ query_result = NoResult
  /\ now = 0
  /\ client = [op |-> "hook", data |-> 0, loading |-> TRUE, error |-> 0,
               started |-> 0, inflight |-> {}, failed |-> {}]

\* fetchData() up to its await: the effect after mount, after a change of
\* deps, or refetch()
FetchData ==
  /\ client.op = "hook"
  /\ client.started < MaxFetches
  /\ client' = [client EXCEPT !.loading = TRUE,
                              !.error = 0,
                              !.started = client.started + 1,
                              !.inflight = client.inflight \cup {client.started + 1}]
  /\ ServerUnchanged

\* the await returns a result: setData(result), finally setLoading(false)
RpcResolves(request) ==
  /\ client.op = "hook"
  /\ request \in client.inflight
  /\ client' = [client EXCEPT !.data = request,
                              !.loading = FALSE,
                              !.inflight = client.inflight \ {request}]
  /\ ServerUnchanged

\* the await returns rpcError: setError(message), finally setLoading(false)
RpcFails(request) ==
  /\ client.op = "hook"
  /\ request \in client.inflight
  /\ client' = [client EXCEPT !.error = request,
                              !.loading = FALSE,
                              !.inflight = client.inflight \ {request},
                              !.failed = client.failed \cup {request}]
  /\ ServerUnchanged

NextHook ==
  \/ FetchData
  \/ \E request \in 1..MaxFetches : RpcResolves(request)
  \/ \E request \in 1..MaxFetches : RpcFails(request)

SpecHook == InitHook /\ [][NextHook]_vars

\* C30: once every started fetch has completed, data and error are those of
\* the fetch started last, and loading is false only with no fetch in flight
C30_LatestRequestWins ==
  /\ client.started > 0 /\ client.inflight = {}
       => IF client.started \in client.failed
            THEN client.error = client.started
            ELSE client.data = client.started /\ client.error = 0
  /\ client.loading = FALSE => client.inflight = {}

====
